---------------------------- MODULE Spec2Model ----------------------------
(***************************************************************************)
(* A model of serializer.js: the template classes (TObject, TArray,        *)
(* TBoolean, TInteger, TNumber, TString), the intermediate classes         *)
(* (DObject, DArray, DValue) and the four traversals between javascript    *)
(* values, intermediate objects and XML nodes.                             *)
(*                                                                         *)
(* Javascript values are records tagged by t.  Strings are sequences of    *)
(* one-character strings, so that parseInt, parseFloat, Number's toString  *)
(* and the XML text form are computed character by character.  A finite    *)
(* number is sign * m * 10^e with m not divisible by 10.  Every object,    *)
(* array or node the library allocates carries the identity (id) of its    *)
(* allocation.                                                             *)
(***************************************************************************)
EXTENDS Integers, Sequences, FiniteSets

(***************************************************************************)
(* Javascript values                                                       *)
(***************************************************************************)
Undefined == [t |-> "undef"]

Null == [t |-> "null"]

Bool(b) == [t |-> "bool", b |-> b]

Str(s) == [t |-> "str", s |-> s]

Function(name) == [t |-> "fn", name |-> name]

NaN == [t |-> "num", k |-> "nan", neg |-> FALSE, m |-> 0, e |-> 0]

Infinity(neg) == [t |-> "num", k |-> "inf", neg |-> neg, m |-> 0, e |-> 0]

RECURSIVE Num(_, _, _)
\* The number sign * m * 10^e in its normal form (m not divisible by 10).
Num(neg, m, e) ==
    IF m = 0 THEN [t |-> "num", k |-> "fin", neg |-> FALSE, m |-> 0, e |-> 0]
    ELSE IF m % 10 = 0 THEN Num(neg, m \div 10, e + 1)
    ELSE [t |-> "num", k |-> "fin", neg |-> neg, m |-> m, e |-> e]

Whole(n) == IF n < 0 THEN Num(TRUE, -n, 0) ELSE Num(FALSE, n, 0)

\* An object: the identity of its allocation, its constructor and its own
\* properties in insertion order (the order Object.keys lists them in).
NewObj(id, ctor, props) == [t |-> "obj", id |-> id, ctor |-> ctor, props |-> props]

NewArr(id, items) == [t |-> "arr", id |-> id, items |-> items]

\* Objects and arrays the caller built before calling the library: identity 0.
Obj(ctor, props) == NewObj(0, ctor, props)

Arr(items) == NewArr(0, items)

Throw(error) == [t |-> "throw", error |-> error]

IsThrow(v) == v.t = "throw"

Entry(k, v) == [k |-> k, v |-> v]

\* The global Object constructor, and the names every plain object inherits
\* from Object.prototype.
ObjectCtor == Function(<<"O", "b", "j", "e", "c", "t">>)

ObjectPrototypeKeys ==
    { <<"c", "o", "n", "s", "t", "r", "u", "c", "t", "o", "r">>,
      <<"t", "o", "S", "t", "r", "i", "n", "g">>,
      <<"v", "a", "l", "u", "e", "O", "f">> }

Inherited(name) ==
    IF name = <<"c", "o", "n", "s", "t", "r", "u", "c", "t", "o", "r">>
    THEN ObjectCtor ELSE Function(name)

(***************************************************************************)
(* Characters and digits                                                   *)
(***************************************************************************)
DecimalDigits == <<"0", "1", "2", "3", "4", "5", "6", "7", "8", "9">>

HexLower == <<"a", "b", "c", "d", "e", "f">>

HexUpper == <<"A", "B", "C", "D", "E", "F">>

WhiteSpace == {" ", "\n", "\t", "\r"}

IsDigit(c) == \E i \in 1..10 : DecimalDigits[i] = c

IsRadixDigit(c, radix) ==
    \/ IsDigit(c)
    \/ radix = 16 /\ \E i \in 1..6 : HexLower[i] = c \/ HexUpper[i] = c

DigitValue(c) ==
    IF IsDigit(c) THEN (CHOOSE i \in 1..10 : DecimalDigits[i] = c) - 1
    ELSE 9 + (CHOOSE i \in 1..6 : HexLower[i] = c \/ HexUpper[i] = c)

RECURSIVE TrimStart(_)
TrimStart(s) ==
    IF s # <<>> /\ Head(s) \in WhiteSpace THEN TrimStart(Tail(s)) ELSE s

RECURSIVE DigitPrefix(_, _)
\* The longest prefix of s made of digits of the radix.
DigitPrefix(s, radix) ==
    IF s # <<>> /\ IsRadixDigit(Head(s), radix)
    THEN <<Head(s)>> \o DigitPrefix(Tail(s), radix)
    ELSE <<>>

RECURSIVE DigitsValue(_, _)
DigitsValue(ds, radix) ==
    IF ds = <<>> THEN 0
    ELSE DigitsValue(SubSeq(ds, 1, Len(ds) - 1), radix) * radix
         + DigitValue(ds[Len(ds)])

RECURSIVE NatDigits(_)
NatDigits(n) ==
    IF n < 10 THEN <<DecimalDigits[n + 1]>>
    ELSE NatDigits(n \div 10) \o <<DecimalDigits[(n % 10) + 1]>>

RECURSIVE Zeros(_)
Zeros(n) == IF n <= 0 THEN <<>> ELSE <<"0">> \o Zeros(n - 1)

StartsWith(s, p) == Len(s) >= Len(p) /\ SubSeq(s, 1, Len(p)) = p

Drop(s, n) == SubSeq(s, n + 1, Len(s))

(***************************************************************************)
(* Number::toString, ToString, parseInt, parseFloat                        *)
(***************************************************************************)
\* Number::toString(x) in radix 10: with k digits s and x = s * 10^(n-k),
\* decimal notation for -6 < n <= 21 and exponential notation otherwise.
NumberToString(x) ==
    IF x.k = "nan" THEN <<"N", "a", "N">>
    ELSE IF x.k = "inf"
    THEN (IF x.neg THEN <<"-">> ELSE <<>>)
         \o <<"I", "n", "f", "i", "n", "i", "t", "y">>
    ELSE IF x.m = 0 THEN <<"0">>
    ELSE LET s == NatDigits(x.m)
             k == Len(s)
             n == k + x.e
             sign == IF x.neg THEN <<"-">> ELSE <<>>
             expo == (IF n - 1 < 0 THEN <<"-">> ELSE <<"+">>)
                     \o NatDigits(IF n - 1 < 0 THEN 1 - n ELSE n - 1)
         IN  sign \o
             (IF k <= n /\ n <= 21 THEN s \o Zeros(n - k)
              ELSE IF 0 < n /\ n <= 21
              THEN SubSeq(s, 1, n) \o <<".">> \o SubSeq(s, n + 1, k)
              ELSE IF -6 < n /\ n <= 0 THEN <<"0", ".">> \o Zeros(-n) \o s
              ELSE IF k = 1 THEN s \o <<"e">> \o expo
              ELSE <<s[1], ".">> \o SubSeq(s, 2, k) \o <<"e">> \o expo)

RECURSIVE ToStr(_)
RECURSIVE Join(_)
\* Array.prototype.join(","): undefined and null items give the empty string.
Join(items) ==
    IF items = <<>> THEN <<>>
    ELSE (IF Head(items).t \in {"undef", "null"} THEN <<>>
          ELSE ToStr(Head(items)))
         \o (IF Len(items) > 1 THEN <<",">> \o Join(Tail(items)) ELSE <<>>)

\* The abstract operation ToString, as parseInt and parseFloat apply it to
\* their argument.
ToStr(v) ==
    CASE v.t = "undef" -> <<"u", "n", "d", "e", "f", "i", "n", "e", "d">>
      [] v.t = "null" -> <<"n", "u", "l", "l">>
      [] v.t = "bool" -> IF v.b THEN <<"t", "r", "u", "e">>
                         ELSE <<"f", "a", "l", "s", "e">>
      [] v.t = "num" -> NumberToString(v)
      [] v.t = "str" -> v.s
      [] v.t = "arr" -> Join(v.items)
      [] v.t = "obj" -> <<"[", "o", "b", "j", "e", "c", "t", " ",
                          "O", "b", "j", "e", "c", "t", "]">>
      [] v.t = "fn" -> <<"f", "u", "n", "c", "t", "i", "o", "n", " ">>
                       \o v.name \o
                       <<"(", ")", " ", "{", " ", "[", "n", "a", "t", "i",
                         "v", "e", " ", "c", "o", "d", "e", "]", " ", "}">>

IsNegative(s) == s # <<>> /\ Head(s) = "-"

\* s without its leading sign, if it has one.
StripSign(s) == IF s # <<>> /\ Head(s) \in {"+", "-"} THEN Tail(s) ELSE s

HasHexPrefix(s) ==
    StartsWith(s, <<"0", "x">>) \/ StartsWith(s, <<"0", "X">>)

\* The value of the longest run of digits of the radix that s starts with;
\* NaN when that run is empty.
parseIntDigits(neg, z, radix) ==
    IF z = <<>> THEN NaN ELSE Num(neg, DigitsValue(z, radix), 0)

parseIntUnsigned(neg, s) ==
    IF HasHexPrefix(s) THEN parseIntDigits(neg, DigitPrefix(Drop(s, 2), 16), 16)
    ELSE parseIntDigits(neg, DigitPrefix(s, 10), 10)

parseIntTrimmed(s) == parseIntUnsigned(IsNegative(s), StripSign(s))

\* parseInt(v) with no radix: ToString, leading white space, a sign, an
\* optional 0x prefix, then the longest run of digits.
parseInt(v) == parseIntTrimmed(TrimStart(ToStr(v)))

parseFloatExponentDigits(eneg, ep) ==
    IF ep = <<>> THEN 0
    ELSE IF eneg THEN 0 - DigitsValue(ep, 10)
    ELSE DigitsValue(ep, 10)

\* The exponent part s starts with: e or E, a sign, digits; 0 without one.
parseFloatExponent(s) ==
    IF s # <<>> /\ Head(s) \in {"e", "E"}
    THEN parseFloatExponentDigits(IsNegative(Tail(s)),
                                  DigitPrefix(StripSign(Tail(s)), 10))
    ELSE 0

\* ip and fp are the digits before and after the point, s what follows.
parseFloatMantissa(neg, ip, fp, s) ==
    IF ip = <<>> /\ fp = <<>> THEN NaN
    ELSE Num(neg, DigitsValue(ip \o fp, 10), parseFloatExponent(s) - Len(fp))

parseFloatFraction(neg, ip, s) ==
    IF s # <<>> /\ Head(s) = "."
    THEN parseFloatMantissa(neg, ip, DigitPrefix(Tail(s), 10),
                            Drop(s, 1 + Len(DigitPrefix(Tail(s), 10))))
    ELSE parseFloatMantissa(neg, ip, <<>>, s)

parseFloatUnsigned(neg, s) ==
    IF StartsWith(s, <<"I", "n", "f", "i", "n", "i", "t", "y">>)
    THEN Infinity(neg)
    ELSE parseFloatFraction(neg, DigitPrefix(s, 10),
                            Drop(s, Len(DigitPrefix(s, 10))))

parseFloatTrimmed(s) == parseFloatUnsigned(IsNegative(s), StripSign(s))

\* parseFloat(v): ToString, leading white space, then the longest prefix
\* that is a StrDecimalLiteral; NaN when there is none.
parseFloat(v) == parseFloatTrimmed(TrimStart(ToStr(v)))

(***************************************************************************)
(* Property access on plain objects                                        *)
(***************************************************************************)
RECURSIVE Keys(_)
\* Object.keys(o): the own property names, in insertion order.
Keys(props) ==
    IF props = <<>> THEN <<>> ELSE <<Head(props).k>> \o Keys(Tail(props))

HasOwn(props, name) == \E i \in 1..Len(props) : props[i].k = name

\* o[name] on an object with the given own properties: the own property,
\* else what Object.prototype provides, else undefined.
Lookup(props, name) ==
    IF HasOwn(props, name)
    THEN props[CHOOSE i \in 1..Len(props) : props[i].k = name].v
    ELSE IF name \in ObjectPrototypeKeys THEN Inherited(name)
    ELSE Undefined

\* o[name] = v: replaces the own property or appends a new one.
SetProp(o, name, v) ==
    IF HasOwn(o.props, name)
    THEN [o EXCEPT !.props =
            [i \in 1..Len(o.props) |->
                IF o.props[i].k = name THEN Entry(name, v) ELSE o.props[i]]]
    ELSE [o EXCEPT !.props = Append(o.props, Entry(name, v))]

\* value[name] for any javascript value: a TypeError on undefined and null.
\* (The names of the model are never array indices or "length".)
GetValue(value, name) ==
    IF value.t \in {"undef", "null"} THEN Throw("TypeError")
    ELSE IF value.t = "obj" THEN Lookup(value.props, name)
    ELSE IF name \in ObjectPrototypeKeys THEN Inherited(name)
    ELSE Undefined

\* ToBoolean.
Truthy(v) ==
    CASE v.t \in {"undef", "null"} -> FALSE
      [] v.t = "bool" -> v.b
      [] v.t = "num" -> ~(v.k = "nan" \/ (v.k = "fin" /\ v.m = 0))
      [] v.t = "str" -> v.s # <<>>
      [] OTHER -> TRUE

\* v.toString() on a primitive or plain value: a TypeError on undefined and
\* null, which have no properties.
MethodToString(v) ==
    IF v.t \in {"undef", "null"} THEN Throw("TypeError") ELSE Str(ToStr(v))

(***************************************************************************)
(* XML nodes (the host's DOM)                                              *)
(***************************************************************************)
\* document.createElement(name), with the identity of the new element.
createElement(id, name) ==
    [t |-> "elem", id |-> id, tagName |-> name, childNodes |-> <<>>]

createTextNode(id, data) == [t |-> "text", id |-> id, data |-> data]

NewDocument(id) == [t |-> "doc", id |-> id]

\* Nodes the caller or the parser built: identity 0.
Element(name, childNodes) ==
    [t |-> "elem", id |-> 0, tagName |-> name, childNodes |-> childNodes]

Text(data) == createTextNode(0, data)

appendChild(element, child) ==
    [element EXCEPT !.childNodes = Append(@, child)]

\* node.tagName: undefined on a text node.
tagName(node) == IF node.t = "elem" THEN Str(node.tagName) ELSE Undefined

RECURSIVE textContent(_)
RECURSIVE textContentOfAll(_)
textContentOfAll(nodes) ==
    IF nodes = <<>> THEN <<>>
    ELSE textContent(Head(nodes)) \o textContentOfAll(Tail(nodes))

\* node.textContent: the concatenation of all text inside the node.
textContent(node) ==
    IF node.t = "text" THEN node.data ELSE textContentOfAll(node.childNodes)

\* element.textContent = s: the children become one text node, or none when
\* s is empty.  The text node takes the identity id.
setTextContent(element, s, id) ==
    [element EXCEPT !.childNodes =
        IF s = <<>> THEN <<>> ELSE <<createTextNode(id, s)>>]

RECURSIVE EscapeText(_)
EscapeText(s) ==
    IF s = <<>> THEN <<>>
    ELSE (CASE Head(s) = "&" -> <<"&", "a", "m", "p", ";">>
            [] Head(s) = "<" -> <<"&", "l", "t", ";">>
            [] Head(s) = ">" -> <<"&", "g", "t", ";">>
            [] OTHER -> <<Head(s)>>)
         \o EscapeText(Tail(s))

RECURSIVE UnescapeText(_)
UnescapeText(s) ==
    IF s = <<>> THEN <<>>
    ELSE IF StartsWith(s, <<"&", "a", "m", "p", ";">>)
    THEN <<"&">> \o UnescapeText(Drop(s, 5))
    ELSE IF StartsWith(s, <<"&", "l", "t", ";">>)
    THEN <<"<">> \o UnescapeText(Drop(s, 4))
    ELSE IF StartsWith(s, <<"&", "g", "t", ";">>)
    THEN <<">">> \o UnescapeText(Drop(s, 4))
    ELSE <<Head(s)>> \o UnescapeText(Tail(s))

RECURSIVE Serialize(_)
RECURSIVE SerializeAll(_)
SerializeAll(nodes) ==
    IF nodes = <<>> THEN <<>>
    ELSE Serialize(Head(nodes)) \o SerializeAll(Tail(nodes))

\* The XML serialization of a node, as innerHTML gives it in an XML
\* document: an element without children is written <name/>.
Serialize(node) ==
    IF node.t = "text" THEN EscapeText(node.data)
    ELSE IF node.childNodes = <<>>
    THEN <<"<">> \o node.tagName \o <<"/", ">">>
    ELSE <<"<">> \o node.tagName \o <<">">>
         \o SerializeAll(node.childNodes)
         \o <<"<", "/">> \o node.tagName \o <<">">>

innerHTML(element) == SerializeAll(element.childNodes)

RECURSIVE UpTo(_, _)
\* The longest prefix of s with no character of the set stop.
UpTo(s, stop) ==
    IF s = <<>> \/ Head(s) \in stop THEN <<>>
    ELSE <<Head(s)>> \o UpTo(Tail(s), stop)

RECURSIVE ParseNodes(_)
\* The XML parser on well-formed text without attributes: the nodes up to
\* the next closing tag (or the end), and the text that is left.
ParseNodes(s) ==
    IF s = <<>> \/ StartsWith(s, <<"<", "/">>)
    THEN [nodes |-> <<>>, rest |-> s]
    ELSE IF Head(s) = "<"
    THEN LET name == UpTo(Tail(s), {">", "/"})
             after == Drop(s, 1 + Len(name))
         IN  IF StartsWith(after, <<"/", ">">>)
             THEN LET more == ParseNodes(Drop(after, 2))
                  IN  [nodes |-> <<Element(name, <<>>)>> \o more.nodes,
                       rest |-> more.rest]
             ELSE LET inner == ParseNodes(Tail(after))
                      more == ParseNodes(Drop(inner.rest, 3 + Len(name)))
                  IN  [nodes |-> <<Element(name, inner.nodes)>> \o more.nodes,
                       rest |-> more.rest]
    ELSE LET raw == UpTo(s, {"<"})
             more == ParseNodes(Drop(s, Len(raw)))
         IN  [nodes |-> <<Text(UnescapeText(raw))>> \o more.nodes,
              rest |-> more.rest]

\* new DOMParser().parseFromString(string, "text/xml"): the document, with
\* the root element as its only child (white space around it is no node).
parseFromString(string) ==
    LET inner == ParseNodes(TrimStart(string))
    IN  [t |-> "doc", id |-> 0,
         childNodes |-> IF inner.nodes = <<>> THEN <<>>
                        ELSE <<Head(inner.nodes)>>]

(***************************************************************************)
(* Templates                                                               *)
(***************************************************************************)
\* A TObject that forgets the constructor it is given.
TObject_plain(properties, objectType) ==
    [t |-> "TObject", properties |-> properties, objectType |-> ObjectCtor]

\* new TObject(properties, objectType): objectType || Object.
TObject(properties, objectType) ==
    [t |-> "TObject", properties |-> properties,
     objectType |-> IF Truthy(objectType) THEN objectType ELSE ObjectCtor]

\* new TArray(itemName, itemTemplate).
TArray(itemName, itemTemplate) ==
    [t |-> "TArray", item |-> [name |-> itemName, template |-> itemTemplate]]

TBoolean == [t |-> "TBoolean"]

TInteger == [t |-> "TInteger"]

TNumber == [t |-> "TNumber"]

TString == [t |-> "TString"]

IsTValue(T) == T.t \in {"TBoolean", "TInteger", "TNumber", "TString"}

\* A boolean parser without the parseInt(v) === 1 case.
TBoolean_valueParser_literal(v) ==
    Bool(v = Str(<<"t", "r", "u", "e">>) \/ v = Bool(TRUE))

\* v => v === "true" || v === true || parseInt(v) === 1
TBoolean_valueParser(v) ==
    Bool(\/ v = Str(<<"t", "r", "u", "e">>)
         \/ v = Bool(TRUE)
         \/ parseInt(v) = Whole(1))

\* v => v.toString()
TString_valueParser(v) == MethodToString(v)

\* this.valueParser(v), by the template's class.
valueParser(T, v) ==
    CASE T.t = "TBoolean" -> TBoolean_valueParser(v)
      [] T.t = "TInteger" -> parseInt(v)
      [] T.t = "TNumber" -> parseFloat(v)
      [] T.t = "TString" -> TString_valueParser(v)

(***************************************************************************)
(* Intermediate objects                                                    *)
(***************************************************************************)
DObject(id, template, properties) ==
    [t |-> "DObject", id |-> id, template |-> template,
     properties |-> properties]

DArray(id, template, items) ==
    [t |-> "DArray", id |-> id, template |-> template, items |-> items]

DValue(id, template, value) ==
    [t |-> "DValue", id |-> id, template |-> template, value |-> value]

\* What a traversal returns: its result (or the exception it throws) and the
\* next free identity.
Result(ret, id) == [ret |-> ret, id |-> id]

(***************************************************************************)
(* Templates: fromJs, fromXml, fromXmlString                               *)
(***************************************************************************)
RECURSIVE fromJs(_, _, _)
RECURSIVE fromXml(_, _, _)

RECURSIVE TObject_fromJs_forEach(_, _, _, _)
\* Object.keys(this.properties).forEach(name =>
\*     properties[name] = this.properties[name].fromJs(value[name]))
TObject_fromJs_forEach(this, value, names, acc) ==
    IF names = <<>> \/ IsThrow(acc.ret) THEN acc
    ELSE LET name == Head(names)
             v == GetValue(value, name)
             child == IF IsThrow(v) THEN Result(v, acc.id)
                      ELSE fromJs(Lookup(this.properties.props, name), v, acc.id)
         IN  TObject_fromJs_forEach(this, value, Tail(names),
                 IF IsThrow(child.ret) THEN child
                 ELSE Result(SetProp(acc.ret, name, child.ret), child.id))

TObject_fromJs(this, value, id) ==
    LET properties == NewObj(id, ObjectCtor, <<>>)
        r == TObject_fromJs_forEach(this, value, Keys(this.properties.props),
                                    Result(properties, id + 1))
    IN  IF IsThrow(r.ret) THEN r
        ELSE Result(DObject(r.id, this, r.ret), r.id + 1)

RECURSIVE TObject_fromXml_forEach(_, _, _)
\* value.childNodes.forEach(node => { const name = node.tagName;
\*     if (!properties[name] && this.properties[name])
\*         properties[name] = this.properties[name].fromXml(node); })
TObject_fromXml_forEach(this, nodes, acc) ==
    IF nodes = <<>> \/ IsThrow(acc.ret) THEN acc
    ELSE LET node == Head(nodes)
             name == ToStr(tagName(node))
             template == Lookup(this.properties.props, name)
         IN  TObject_fromXml_forEach(this, Tail(nodes),
                 IF ~Truthy(Lookup(acc.ret.props, name)) /\ Truthy(template)
                 THEN LET child == fromXml(template, node, acc.id)
                      IN  IF IsThrow(child.ret) THEN child
                          ELSE Result(SetProp(acc.ret, name, child.ret), child.id)
                 ELSE acc)

TObject_fromXml(this, value, id) ==
    LET properties == NewObj(id, ObjectCtor, <<>>)
        r == TObject_fromXml_forEach(this, value.childNodes,
                                     Result(properties, id + 1))
    IN  IF IsThrow(r.ret) THEN r
        ELSE Result(DObject(r.id, this, r.ret), r.id + 1)

RECURSIVE TArray_fromJs_map(_, _, _)
\* value.map(v => this.item.template.fromJs(v)), into the array acc.ret.
TArray_fromJs_map(this, values, acc) ==
    IF values = <<>> \/ IsThrow(acc.ret) THEN acc
    ELSE LET child == fromJs(this.item.template, Head(values), acc.id)
         IN  TArray_fromJs_map(this, Tail(values),
                 IF IsThrow(child.ret) THEN child
                 ELSE Result([acc.ret EXCEPT !.items = Append(@, child.ret)],
                             child.id))

\* value.map is a TypeError unless value is an array.
TArray_fromJs(this, value, id) ==
    IF value.t # "arr" THEN Result(Throw("TypeError"), id)
    ELSE LET r == TArray_fromJs_map(this, value.items,
                                    Result(NewArr(id, <<>>), id + 1))
         IN  IF IsThrow(r.ret) THEN r
             ELSE Result(DArray(r.id, this, r.ret), r.id + 1)

\* A filter that keeps every element, whatever its tag.
TArray_fromXml_filter_elements(this, nodes) ==
    SelectSeq(nodes, LAMBDA element : element.t = "elem")

\* Array.prototype.filter.call(childNodes,
\*     element => element.tagName === this.item.name)
TArray_fromXml_filter(this, nodes) ==
    SelectSeq(nodes, LAMBDA element : tagName(element) = Str(this.item.name))

RECURSIVE TArray_fromXml_map(_, _, _)
\* .map(element => this.item.template.fromXml(element)), into acc.ret.
TArray_fromXml_map(this, elements, acc) ==
    IF elements = <<>> \/ IsThrow(acc.ret) THEN acc
    ELSE LET child == fromXml(this.item.template, Head(elements), acc.id)
         IN  TArray_fromXml_map(this, Tail(elements),
                 IF IsThrow(child.ret) THEN child
                 ELSE Result([acc.ret EXCEPT !.items = Append(@, child.ret)],
                             child.id))

\* The filtered array takes the identity id, the mapped one id + 1.
TArray_fromXml(this, value, id) ==
    LET r == TArray_fromXml_map(this,
                 TArray_fromXml_filter(this, value.childNodes),
                 Result(NewArr(id + 1, <<>>), id + 2))
    IN  IF IsThrow(r.ret) THEN r
        ELSE Result(DArray(r.id, this, r.ret), r.id + 1)

TValue_fromJs(this, value, id) ==
    LET v == valueParser(this, value)
    IN  IF IsThrow(v) THEN Result(v, id)
        ELSE Result(DValue(id, this, v), id + 1)

TValue_fromXml(this, value, id) ==
    LET v == valueParser(this, Str(textContent(value)))
    IN  IF IsThrow(v) THEN Result(v, id)
        ELSE Result(DValue(id, this, v), id + 1)

\* template.fromJs(value), by the template's class; a TypeError when the
\* receiver is no template (it has no fromJs).
fromJs(T, value, id) ==
    CASE T.t = "TObject" -> TObject_fromJs(T, value, id)
      [] T.t = "TArray" -> TArray_fromJs(T, value, id)
      [] IsTValue(T) -> TValue_fromJs(T, value, id)
      [] OTHER -> Result(Throw("TypeError"), id)

fromXml(T, value, id) ==
    CASE T.t = "TObject" -> TObject_fromXml(T, value, id)
      [] T.t = "TArray" -> TArray_fromXml(T, value, id)
      [] IsTValue(T) -> TValue_fromXml(T, value, id)
      [] OTHER -> Result(Throw("TypeError"), id)

\* this.fromXml(new DOMParser().parseFromString(string, "text/xml")
\*                  .childNodes[0])
fromXmlString(T, string, id) ==
    fromXml(T, parseFromString(string).childNodes[1], id)

(***************************************************************************)
(* Intermediate objects: toJs, toXml, toXmlString                          *)
(***************************************************************************)
RECURSIVE toJs(_, _)
RECURSIVE toXml(_, _, _, _)

RECURSIVE DObject_toJs_forEach(_, _, _)
\* Object.keys(this.properties).forEach(name =>
\*     result[name] = this.properties[name].toJs())
DObject_toJs_forEach(this, names, acc) ==
    IF names = <<>> THEN acc
    ELSE LET name == Head(names)
             child == toJs(Lookup(this.properties.props, name), acc.id)
         IN  DObject_toJs_forEach(this, Tail(names),
                 Result(SetProp(acc.ret, name, child.ret), child.id))

\* let result = new this.template.objectType(); the constructors of the
\* model set no property of their own.
DObject_toJs(this, id) ==
    DObject_toJs_forEach(this, Keys(this.properties.props),
        Result(NewObj(id, this.template.objectType, <<>>), id + 1))

RECURSIVE DArray_toJs_map(_, _)
DArray_toJs_map(items, acc) ==
    IF items = <<>> THEN acc
    ELSE LET child == toJs(Head(items), acc.id)
         IN  DArray_toJs_map(Tail(items),
                 Result([acc.ret EXCEPT !.items = Append(@, child.ret)],
                        child.id))

\* A toJs that fills and returns the node's own items array.
DArray_toJs_inPlace(this, id) ==
    DArray_toJs_map(this.items.items, Result(NewArr(this.items.id, <<>>), id))

\* return this.items.map(i => i.toJs())
DArray_toJs(this, id) ==
    DArray_toJs_map(this.items.items, Result(NewArr(id, <<>>), id + 1))

\* return this.value
DValue_toJs(this, id) == Result(this.value, id)

toJs(D, id) ==
    CASE D.t = "DObject" -> DObject_toJs(D, id)
      [] D.t = "DArray" -> DArray_toJs(D, id)
      [] D.t = "DValue" -> DValue_toJs(D, id)

\* document = document || new Document(): the document, and the next free
\* identity.
DocumentOrNew(document, id) ==
    IF Truthy(document) THEN Result(document, id)
    ELSE Result(NewDocument(id), id + 1)

RECURSIVE DObject_toXml_forEach(_, _, _, _)
\* Object.keys(this.properties).forEach(name =>
\*     element.appendChild(this.properties[name].toXml(name, document)))
DObject_toXml_forEach(this, names, document, acc) ==
    IF names = <<>> \/ IsThrow(acc.ret) THEN acc
    ELSE LET name == Head(names)
             child == toXml(Lookup(this.properties.props, name), name,
                            document, acc.id)
         IN  DObject_toXml_forEach(this, Tail(names), document,
                 IF IsThrow(child.ret) THEN child
                 ELSE Result(appendChild(acc.ret, child.ret), child.id))

DObject_toXml(this, name, document, id) ==
    LET doc == DocumentOrNew(document, id)
    IN  DObject_toXml_forEach(this, Keys(this.properties.props), doc.ret,
            Result(createElement(doc.id, name), doc.id + 1))

RECURSIVE DArray_toXml_forEach(_, _, _, _)
\* this.items.forEach(item =>
\*     element.appendChild(item.toXml(this.template.item.name, document)))
DArray_toXml_forEach(this, items, document, acc) ==
    IF items = <<>> \/ IsThrow(acc.ret) THEN acc
    ELSE LET child == toXml(Head(items), this.template.item.name,
                            document, acc.id)
         IN  DArray_toXml_forEach(this, Tail(items), document,
                 IF IsThrow(child.ret) THEN child
                 ELSE Result(appendChild(acc.ret, child.ret), child.id))

DArray_toXml(this, name, document, id) ==
    LET doc == DocumentOrNew(document, id)
    IN  DArray_toXml_forEach(this, this.items.items, doc.ret,
            Result(createElement(doc.id, name), doc.id + 1))

\* element.textContent = this.value.toString()
DValue_toXml(this, name, document, id) ==
    LET doc == DocumentOrNew(document, id)
        s == MethodToString(this.value)
    IN  IF IsThrow(s) THEN Result(s, doc.id + 1)
        ELSE Result(setTextContent(createElement(doc.id, name), s.s, doc.id + 1),
                    doc.id + 2)

toXml(D, name, document, id) ==
    CASE D.t = "DObject" -> DObject_toXml(D, name, document, id)
      [] D.t = "DArray" -> DArray_toXml(D, name, document, id)
      [] D.t = "DValue" -> DValue_toXml(D, name, document, id)

\* let document = new Document();
\* let rootElement = document.createElement("root");
\* document.appendChild(rootElement);
\* rootElement.appendChild(this.toXml(rootName, document));
\* return rootElement.innerHTML;
toXmlString(D, rootName, id) ==
    LET document == NewDocument(id)
        rootElement == createElement(id + 1, <<"r", "o", "o", "t">>)
        child == toXml(D, rootName, document, id + 2)
    IN  IF IsThrow(child.ret) THEN child
        ELSE Result(Str(innerHTML(appendChild(rootElement, child.ret))),
                    child.id)

(***************************************************************************)
(* The callers' templates and inputs                                       *)
(***************************************************************************)
MaxItems == 2

MaxChildren == 3

MaxCalls == 4

SeqsUpTo(S, n) == UNION {[1..k -> S] : k \in 0..n}

P == Function(<<"P">>)

Q == Function(<<"Q">>)

Literal(props) == Obj(ObjectCtor, props)

\* {a: 15, b: true, c: [3, 5]} <-> <x><a>15</a><b>true</b><c><number>3</number>...
ReadmeTemplate ==
    TObject(Literal(<<Entry(<<"a">>, TNumber), Entry(<<"b">>, TBoolean),
                      Entry(<<"c">>, TArray(<<"n", "u", "m", "b", "e", "r">>,
                                            TNumber))>>),
            Undefined)

\* The template of "Javascript constructors", with the classes P and Q.
ConstructorTemplate ==
    TObject(Literal(<<Entry(<<"a">>, TNumber),
                      Entry(<<"b">>,
                            TObject(Literal(<<Entry(<<"c">>, TString)>>), Q))>>),
            P)

PairTemplate ==
    TObject(Literal(<<Entry(<<"a">>, TNumber), Entry(<<"b">>, TString)>>),
            Undefined)

\* A template with a property called like a member of Object.prototype.
CarTemplate ==
    TObject(Literal(<<Entry(<<"a">>, TInteger),
                      Entry(<<"c", "o", "n", "s", "t", "r", "u", "c", "t", "o", "r">>,
                            TString)>>),
            Undefined)

IntegersTemplate == TArray(<<"n">>, TInteger)

NestedTemplate == TArray(<<"n">>, TArray(<<"b">>, TBoolean))

Templates ==
    {TBoolean, TInteger, TNumber, TString, IntegersTemplate, NestedTemplate,
     PairTemplate, ReadmeTemplate, ConstructorTemplate, CarTemplate}

BooleanValues == {Bool(TRUE), Bool(FALSE)}

\* 3, -2 and 1e21
IntegerValues == {Whole(3), Whole(-2), Num(FALSE, 1, 21)}

NumberValues == {Whole(3), Whole(5), Whole(15)}

StringValues == {Str(<<>>), Str(<<"f", "i", "f", "t", "e", "e", "n">>),
                 Str(<<"a", "<", "b">>)}

RawStrings ==
    { <<"t", "r", "u", "e">>, <<"f", "a", "l", "s", "e">>, <<"1">>, <<"0">>,
      <<"b", "a", "n", "a", "n", "a">>, <<" ", "1">>, <<"1", "a", "b", "c">>,
      <<"+", "1">>, <<"0", "x", "1">>, <<"1", ".", "9">>, <<"1", "5">>,
      <<"3", ".", "5">>, <<"-", "2">>, <<"T", "R", "U", "E">>,
      <<"1", "e", "3">>, <<".", "5">>, <<"1", "1">>, <<"a", "<", "b">> }

\* Raw native inputs of a value template: undefined, null, booleans,
\* numbers (0, 1, 3, -2, 100, 1.5, 3.5, 1e21, 1e-7, NaN, Infinity), strings.
RawInputs ==
    {Undefined, Null, Bool(TRUE), Bool(FALSE), NaN, Infinity(FALSE),
     Whole(0), Whole(1), Whole(3), Whole(-2), Whole(100), Num(FALSE, 15, -1),
     Num(FALSE, 35, -1), Num(FALSE, 1, 21), Num(FALSE, 1, -7)}
    \cup {Str(s) : s \in RawStrings \cup {<<>>}}

RECURSIVE Values(_)
RECURSIVE PropertyValues(_)
\* The own properties of the records that have every declared property.
PropertyValues(entries) ==
    IF entries = <<>> THEN {<<>>}
    ELSE {<<Entry(Head(entries).k, v)>> \o rest :
            v \in Values(Head(entries).v), rest \in PropertyValues(Tail(entries))}

\* Native values of the shape a template declares.
Values(T) ==
    CASE T.t = "TObject" ->
            {Obj(T.objectType, props) : props \in PropertyValues(T.properties.props)}
      [] T.t = "TArray" ->
            {Arr(items) : items \in SeqsUpTo(Values(T.item.template), MaxItems)}
      [] T.t = "TBoolean" -> BooleanValues
      [] T.t = "TInteger" -> IntegerValues
      [] T.t = "TNumber" -> NumberValues
      [] T.t = "TString" -> StringValues

RemoveKey(o, name) ==
    [o EXCEPT !.props = SelectSeq(@, LAMBDA entry : entry.k # name)]

\* The records of the declared shape with one declared property missing.
MissingField(T) ==
    IF T.t # "TObject" THEN {}
    ELSE {RemoveKey(V, T.properties.props[i].k) :
            V \in Values(T), i \in 1..Len(T.properties.props)}

JsInputs(T) ==
    Values(T) \cup MissingField(T) \cup (IF IsTValue(T) THEN RawInputs ELSE {})

RECURSIVE Contents(_, _)
\* Elements tagged name holding a value of the template: n of them, with
\* different contents.
Samples(T, name, n) == {Element(name, c) : c \in Contents(T, n)}

\* Some child sequences an element ingested by the template may have.
Contents(T, n) ==
    CASE T.t = "TObject" ->
            LET one == Samples(T.properties.props[1].v, T.properties.props[1].k, 1)
            IN  {<<>>} \cup {<<e>> : e \in one}
      [] T.t = "TArray" ->
            LET one == Samples(T.item.template, T.item.name, 1)
            IN  {<<>>} \cup {<<e, e>> : e \in one}
      [] T.t = "TBoolean" ->
            IF n = 1 THEN {<<Text(<<"t", "r", "u", "e">>)>>}
            ELSE {<<Text(<<"t", "r", "u", "e">>)>>, <<Text(<<"0">>)>>}
      [] T.t = "TString" ->
            IF n = 1 THEN {<<Text(<<"f", "i", "f", "t", "e", "e", "n">>)>>}
            ELSE {<<Text(<<"f", "i", "f", "t", "e", "e", "n">>)>>, <<Text(<<"x">>)>>}
      [] OTHER ->
            IF n = 1 THEN {<<Text(<<"3">>)>>}
            ELSE {<<Text(<<"3">>)>>, <<Text(<<"5">>)>>}

Other == Element(<<"o", "t", "h", "e", "r">>, <<Text(<<"9">>)>>)

\* The children a tree given to the template is built from: two elements
\* for its first declared tag, one for each other declared tag, an element
\* with an undeclared tag and a white-space text node.
Candidates(T) ==
    CASE T.t = "TObject" ->
            Samples(T.properties.props[1].v, T.properties.props[1].k, 2)
            \cup UNION {Samples(T.properties.props[i].v, T.properties.props[i].k, 1) :
                          i \in 2..Len(T.properties.props)}
            \cup {Other}
      [] T.t = "TArray" ->
            Samples(T.item.template, T.item.name, 2) \cup {Other, Text(<<" ">>)}
      [] OTHER -> {}

\* The trees given to template.fromXml.
XmlInputs(T) ==
    IF IsTValue(T)
    THEN {Element(<<"x">>, <<Text(s)>>) : s \in RawStrings}
         \cup {Element(<<"x">>, <<>>),
               Element(<<"x">>, <<Text(<<"1">>), Element(<<"b">>, <<Text(<<"5">>)>>)>>)}
    ELSE {Element(<<"x">>, c) : c \in SeqsUpTo(Candidates(T), MaxChildren)}

\* The text <name>body</name>.
Tagged(name, body) ==
    <<"<">> \o name \o <<">">> \o body \o <<"<", "/">> \o name \o <<">">>

\* <x><a>15</a><b>true</b><c><number>3</number><number>5</number></c></x>
ReadmeText ==
    Tagged(<<"x">>,
        Tagged(<<"a">>, <<"1", "5">>) \o Tagged(<<"b">>, <<"t", "r", "u", "e">>)
        \o Tagged(<<"c">>,
               Tagged(<<"n", "u", "m", "b", "e", "r">>, <<"3">>)
               \o Tagged(<<"n", "u", "m", "b", "e", "r">>, <<"5">>)))

\* The same document laid out on several lines, as the README prints it.
ReadmeTextIndented ==
    Tagged(<<"x">>,
        <<"\n", " ", " ">> \o Tagged(<<"a">>, <<"1", "5">>)
        \o <<"\n", " ", " ">> \o Tagged(<<"b">>, <<"t", "r", "u", "e">>)
        \o <<"\n", " ", " ">>
        \o Tagged(<<"c">>,
               <<"\n", " ", " ", " ", " ">>
               \o Tagged(<<"n", "u", "m", "b", "e", "r">>, <<"3">>)
               \o <<"\n", " ", " ", " ", " ">>
               \o Tagged(<<"n", "u", "m", "b", "e", "r">>, <<"5">>)
               \o <<"\n", " ", " ", " ">>)
        \o <<"\n">>)

\* <p><a>3</a><b><c>fifteen</c></b></p>
ConstructorText ==
    Tagged(<<"p">>,
        Tagged(<<"a">>, <<"3">>)
        \o Tagged(<<"b">>,
               Tagged(<<"c">>, <<"f", "i", "f", "t", "e", "e", "n">>)))

\* <x><a>1</a><a>2</a></x>
DuplicateText ==
    Tagged(<<"x">>, Tagged(<<"a">>, <<"1">>) \o Tagged(<<"a">>, <<"2">>))

\* <x></x>
EmptyText == Tagged(<<"x">>, <<>>)

\* <c><n>3</n><other>9</other><n>5</n></c>
FilterText ==
    Tagged(<<"c">>,
        Tagged(<<"n">>, <<"3">>) \o Tagged(<<"o", "t", "h", "e", "r">>, <<"9">>)
        \o Tagged(<<"n">>, <<"5">>))

TextInputs ==
    {ReadmeText, ReadmeTextIndented, ConstructorText, DuplicateText, EmptyText,
     FilterText}

RootNames == {<<"x">>, <<"c">>}

(***************************************************************************)
(* The state: a template, the intermediate object of the last from* call,  *)
(* the calls made so far and the next free identity.                       *)
(***************************************************************************)
VARIABLES template, data, calls, nextId

vars == <<template, data, calls, nextId>>

Call(op, arg, name, ret) == [op |-> op, arg |-> arg, name |-> name, ret |-> ret]

IsData(d) == d.t \in {"DObject", "DArray", "DValue"}

Init ==
    /\ template \in Templates
    /\ data = Undefined
    /\ calls = <<>>
    /\ nextId = 1

\* data = template.fromJs(value)
FromJs ==
    /\ calls = <<>>
    /\ \E value \in JsInputs(template) :
         LET r == fromJs(template, value, nextId)
         IN  /\ data' = r.ret
             /\ nextId' = r.id
             /\ calls' = Append(calls, Call("fromJs", value, <<>>, r.ret))
    /\ UNCHANGED template

\* data = template.fromXml(node)
FromXml ==
    /\ calls = <<>>
    /\ \E node \in XmlInputs(template) :
         LET r == fromXml(template, node, nextId)
         IN  /\ data' = r.ret
             /\ nextId' = r.id
             /\ calls' = Append(calls, Call("fromXml", node, <<>>, r.ret))
    /\ UNCHANGED template

\* data.toJs()
ToJs ==
    /\ IsData(data)
    /\ Len(calls) < MaxCalls
    /\ LET r == toJs(data, nextId)
       IN  /\ nextId' = r.id
           /\ calls' = Append(calls, Call("toJs", data, <<>>, r.ret))
    /\ UNCHANGED <<template, data>>

\* data.toXml(name)
ToXml ==
    /\ IsData(data)
    /\ Len(calls) < MaxCalls
    /\ \E name \in RootNames :
         LET r == toXml(data, name, Undefined, nextId)
         IN  /\ nextId' = r.id
             /\ calls' = Append(calls, Call("toXml", data, name, r.ret))
    /\ UNCHANGED <<template, data>>

\* The texts toXmlString has returned so far.
RenderedTexts ==
    {calls[i].ret.s : i \in {j \in 1..Len(calls) : calls[j].op = "toXmlString"}}

\* data = template.fromXmlString(string), on a text of the caller's or on
\* one that toXmlString returned.
FromXmlString ==
    /\ Len(calls) < MaxCalls
    /\ \E string \in (IF calls = <<>> THEN TextInputs ELSE RenderedTexts) :
         LET r == fromXmlString(template, string, nextId)
         IN  /\ data' = r.ret
             /\ nextId' = r.id
             /\ calls' = Append(calls, Call("fromXmlString", Str(string), <<>>, r.ret))
    /\ UNCHANGED template

\* data.toXmlString(rootName)
ToXmlString ==
    /\ IsData(data)
    /\ Len(calls) < MaxCalls
    /\ \E rootName \in RootNames :
         LET r == toXmlString(data, rootName, nextId)
         IN  /\ nextId' = r.id
             /\ calls' = Append(calls, Call("toXmlString", data, rootName, r.ret))
    /\ UNCHANGED <<template, data>>

\* Conversions between native values, intermediate objects and XML nodes.
Next == FromJs \/ FromXml \/ ToJs \/ ToXml

Spec == Init /\ [][Next]_vars

\* Conversions between native values, intermediate objects and XML text.
NextText == FromJs \/ FromXmlString \/ ToJs \/ ToXmlString

SpecText == Init /\ [][NextText]_vars

(***************************************************************************)
(* Properties                                                              *)
(***************************************************************************)
KeySet(props) == {props[i].k : i \in 1..Len(props)}

RECURSIVE SameValue(_, _)
\* x and y are equal field for field and element for element, in the same
\* array order; identities, constructors and property order do not count.
SameValue(x, y) ==
    IF x.t # y.t THEN FALSE
    ELSE IF x.t = "obj"
    THEN /\ KeySet(x.props) = KeySet(y.props)
         /\ \A name \in KeySet(x.props) :
                SameValue(Lookup(x.props, name), Lookup(y.props, name))
    ELSE IF x.t = "arr"
    THEN /\ Len(x.items) = Len(y.items)
         /\ \A i \in 1..Len(x.items) : SameValue(x.items[i], y.items[i])
    ELSE x = y

RECURSIVE Matches(_, _)
\* The native value V has exactly the shape the template T declares.
Matches(T, V) ==
    CASE T.t = "TObject" ->
            /\ V.t = "obj"
            /\ Len(V.props) = Len(T.properties.props)
            /\ KeySet(V.props) = KeySet(T.properties.props)
            /\ \A name \in KeySet(V.props) :
                   Matches(Lookup(T.properties.props, name), Lookup(V.props, name))
      [] T.t = "TArray" ->
            /\ V.t = "arr"
            /\ \A i \in 1..Len(V.items) : Matches(T.item.template, V.items[i])
      [] T.t = "TBoolean" -> V.t = "bool"
      [] T.t = "TInteger" -> V.t = "num" /\ V.k = "fin" /\ V.e >= 0
      [] T.t = "TNumber" -> V.t = "num" /\ V.k # "nan"
      [] T.t = "TString" -> V.t = "str"

RECURSIVE StripIds(_)
StripIdsOfAll(vs) == [i \in 1..Len(vs) |-> StripIds(vs[i])]

\* The value without the identities of its objects, arrays and nodes.
StripIds(v) ==
    CASE v.t = "obj" ->
            [t |-> "obj", ctor |-> v.ctor,
             props |-> [i \in 1..Len(v.props) |->
                          Entry(v.props[i].k, StripIds(v.props[i].v))]]
      [] v.t = "arr" -> [t |-> "arr", items |-> StripIdsOfAll(v.items)]
      [] v.t = "elem" ->
            [t |-> "elem", tagName |-> v.tagName,
             childNodes |-> StripIdsOfAll(v.childNodes)]
      [] v.t = "text" -> [t |-> "text", data |-> v.data]
      [] v.t = "DObject" ->
            [t |-> "DObject", template |-> v.template,
             properties |-> StripIds(v.properties)]
      [] v.t = "DArray" ->
            [t |-> "DArray", template |-> v.template, items |-> StripIds(v.items)]
      [] v.t = "DValue" ->
            [t |-> "DValue", template |-> v.template, value |-> v.value]
      [] OTHER -> v

RECURSIVE Ids(_)
IdsOfAll(vs) == UNION {Ids(vs[i]) : i \in 1..Len(vs)}

\* The identities of the objects, arrays and nodes the value is made of.
Ids(v) ==
    CASE v.t = "obj" ->
            {v.id} \cup UNION {Ids(v.props[i].v) : i \in 1..Len(v.props)}
      [] v.t = "arr" -> {v.id} \cup IdsOfAll(v.items)
      [] v.t = "elem" -> {v.id} \cup IdsOfAll(v.childNodes)
      [] v.t = "text" -> {v.id}
      [] v.t = "DObject" -> {v.id} \cup Ids(v.properties)
      [] v.t = "DArray" -> {v.id} \cup Ids(v.items)
      [] v.t = "DValue" -> {v.id}
      [] OTHER -> {}

CallIndex == 1..Len(calls)

Min(S) == CHOOSE i \in S : \A j \in S : i <= j

\* The positions of the children of the node that are tagged name.
Occurrences(node, name) ==
    {i \in 1..Len(node.childNodes) : tagName(node.childNodes[i]) = Str(name)}

\* C1: for a native value V of exactly the template's shape, fromJs(V) does
\* not throw and every toJs() of its result equals V field for field and
\* element for element, in the same array order.
NativeRoundTrip ==
    \A i \in CallIndex :
        calls[i].op = "fromJs" /\ Matches(template, calls[i].arg) =>
            /\ ~IsThrow(calls[i].ret)
            /\ \A j \in CallIndex :
                   calls[j].op = "toJs" /\ calls[j].arg = calls[i].ret =>
                       SameValue(calls[j].ret, calls[i].arg)

\* {a: 15, b: true, c: [3, 5]}
ReadmeValue ==
    Literal(<<Entry(<<"a">>, Whole(15)), Entry(<<"b">>, Bool(TRUE)),
              Entry(<<"c">>, Arr(<<Whole(3), Whole(5)>>))>>)

\* C2: for a native value V of exactly the template's shape and any root
\* name, fromXmlString(fromJs(V).toXmlString(name)) does not throw and its
\* toJs() equals V; and the README's value renders as the README's text.
TextRoundTrip ==
    /\ \A i, j, k \in CallIndex :
           /\ calls[i].op = "fromJs" /\ Matches(template, calls[i].arg)
           /\ calls[j].op = "toXmlString" /\ calls[j].arg = calls[i].ret
           /\ calls[k].op = "fromXmlString" /\ calls[k].arg = calls[j].ret
           /\ i < j /\ j < k
           => /\ ~IsThrow(calls[k].ret)
              /\ \A l \in CallIndex :
                     calls[l].op = "toJs" /\ calls[l].arg = calls[k].ret /\ k < l
                     => SameValue(calls[l].ret, calls[i].arg)
    /\ \A i, j \in CallIndex :
           /\ template = ReadmeTemplate
           /\ calls[i].op = "fromJs" /\ calls[i].arg = ReadmeValue
           /\ calls[j].op = "toXmlString" /\ calls[j].arg = calls[i].ret
           /\ calls[j].name = <<"x">>
           => calls[j].ret = Str(ReadmeText)

\* C3: fromJs on a record that lacks a declared property p does not throw,
\* and the result holds for p nothing or a node whose toJs() is undefined.
MissingFieldsAreAbsent ==
    \A i \in CallIndex :
        calls[i].op = "fromJs" /\ template.t = "TObject" /\ calls[i].arg.t = "obj" =>
            \A p \in KeySet(template.properties.props) \ KeySet(calls[i].arg.props) :
                IF IsThrow(calls[i].ret) THEN FALSE
                ELSE HasOwn(calls[i].ret.properties.props, p) =>
                        toJs(Lookup(calls[i].ret.properties.props, p), 0).ret = Undefined

\* C4: when two or more children of the node carry the declared tag p, the
\* object node's property p is the ingestion of the first of them.
FirstOccurrenceWins ==
    \A i \in CallIndex :
        calls[i].op = "fromXml" /\ template.t = "TObject" =>
            \A p \in KeySet(template.properties.props) :
                Cardinality(Occurrences(calls[i].arg, p)) >= 2 =>
                    IF IsThrow(calls[i].ret) THEN FALSE
                    ELSE /\ HasOwn(calls[i].ret.properties.props, p)
                         /\ StripIds(Lookup(calls[i].ret.properties.props, p))
                            = StripIds(fromXml(
                                  Lookup(template.properties.props, p),
                                  calls[i].arg.childNodes[Min(Occurrences(calls[i].arg, p))],
                                  0).ret)

\* The declared property names that are the tag of some child of the node.
DeclaredTags(T, node) ==
    {p \in KeySet(T.properties.props) : Occurrences(node, p) # {}}

\* C5: the keys of the object node fromXml(node) returns are exactly the
\* declared names that are the tag of some child of node, and toJs() sets
\* exactly these.
OmissionIsAbsence ==
    \A i \in CallIndex :
        calls[i].op = "fromXml" /\ template.t = "TObject" =>
            /\ ~IsThrow(calls[i].ret)
            /\ KeySet(calls[i].ret.properties.props)
               = DeclaredTags(template, calls[i].arg)
            /\ \A j \in CallIndex :
                   calls[j].op = "toJs" /\ calls[j].arg = calls[i].ret =>
                       KeySet(calls[j].ret.props)
                       = DeclaredTags(template, calls[i].arg)

\* The k-th smallest member of the set S of numbers.
Nth(S, k) == CHOOSE i \in S : Cardinality({j \in S : j < i}) = k - 1

\* C6: fromXml of an array template yields one item per child of the node
\* whose tag is the item name, in document order, each the ingestion of
\* that child by the item template; other children are skipped.
ArrayTagFiltering ==
    \A i \in CallIndex :
        calls[i].op = "fromXml" /\ template.t = "TArray" =>
            LET node == calls[i].arg
                tagged == Occurrences(node, template.item.name)
            IN  /\ ~IsThrow(calls[i].ret)
                /\ calls[i].ret.t = "DArray"
                /\ Len(calls[i].ret.items.items) = Cardinality(tagged)
                /\ \A k \in 1..Cardinality(tagged) :
                       StripIds(calls[i].ret.items.items[k])
                       = StripIds(fromXml(template.item.template,
                                          node.childNodes[Nth(tagged, k)], 0).ret)

\* Array("n", Integer) on <n>3</n><other>9</other><n>5</n> gives [3, 5],
\* which toXml("c") renders as <c><n>3</n><n>5</n></c>.
ArrayTagFilteringWitness ==
    /\ template = IntegersTemplate
    /\ Len(calls) = 3
    /\ calls[1].op = "fromXml"
    /\ calls[1].arg = Element(<<"x">>,
                        <<Element(<<"n">>, <<Text(<<"3">>)>>), Other,
                          Element(<<"n">>, <<Text(<<"5">>)>>)>>)
    /\ calls[2].op = "toJs"
    /\ SameValue(calls[2].ret, Arr(<<Whole(3), Whole(5)>>))
    /\ calls[3].op = "toXml" /\ calls[3].name = <<"c">>
    /\ Serialize(calls[3].ret)
       = Tagged(<<"c">>, Tagged(<<"n">>, <<"3">>) \o Tagged(<<"n">>, <<"5">>))

\* C7: a value template's fromJs and fromXml never throw, whatever the raw
\* input, and give a boolean, a number (NaN when unparsable) or a string.
CoercionIsTotal ==
    \A i \in CallIndex :
        calls[i].op \in {"fromJs", "fromXml"} /\ IsTValue(template) =>
            IF IsThrow(calls[i].ret) THEN FALSE
            ELSE calls[i].ret.value.t
                 = (CASE template.t = "TBoolean" -> "bool"
                      [] template.t = "TString" -> "str"
                      [] OTHER -> "num")

\* The text s is zeros, then a 1, then no further digit of the radix.
IsOne(s, radix) ==
    \E n \in 0..(Len(s) - 1) :
        /\ \A i \in 1..n : s[i] = "0"
        /\ s[n + 1] = "1"
        /\ Len(s) > n + 1 => ~IsRadixDigit(s[n + 2], radix)

\* The text parses as the integer 1: after leading white space and an
\* optional plus sign it is a decimal 1, or 0x and a hexadecimal 1.
ParsesAsOne(s) ==
    LET u == TrimStart(s)
        w == IF u # <<>> /\ Head(u) = "+" THEN Tail(u) ELSE u
    IN  \/ IsOne(w, 10)
        \/ /\ Len(w) >= 2 /\ w[1] = "0" /\ w[2] \in {"x", "X"}
           /\ IsOne(Drop(w, 2), 16)

\* The raw value a from* call hands to the value parser.
RawValue(call) ==
    IF call.op = "fromJs" THEN call.arg ELSE Str(textContent(call.arg))

BooleanTable ==
    [raw \in {Str(<<"t", "r", "u", "e">>), Bool(TRUE), Str(<<"1">>),
              Str(<<"0">>), Str(<<"f", "a", "l", "s", "e">>),
              Str(<<"b", "a", "n", "a", "n", "a">>)} |->
        raw \in {Str(<<"t", "r", "u", "e">>), Bool(TRUE), Str(<<"1">>)}]

\* C8: the Boolean template yields true iff the raw value is "true", true,
\* or text that parses as the integer 1, alike for fromJs and fromXml; and
\* it follows the table "true", true, "1" -> true; "0", "false", "banana"
\* -> false.
BooleanCoercionTable ==
    \A i \in CallIndex :
        calls[i].op \in {"fromJs", "fromXml"} /\ template = TBoolean =>
            LET raw == RawValue(calls[i])
            IN  /\ ~IsThrow(calls[i].ret)
                /\ calls[i].ret.value
                   = Bool(\/ raw = Str(<<"t", "r", "u", "e">>)
                          \/ raw = Bool(TRUE)
                          \/ ParsesAsOne(ToStr(raw)))
                /\ raw \in DOMAIN BooleanTable =>
                       calls[i].ret.value = Bool(BooleanTable[raw])

\* <x>1</x> is true and a later run through <x>0</x> is not needed: the
\* text "1" reaches the parser through fromXml.
BooleanCoercionTableWitness ==
    /\ template = TBoolean
    /\ calls # <<>>
    /\ calls[1].op = "fromXml"
    /\ calls[1].arg = Element(<<"x">>, <<Text(<<"1">>)>>)
    /\ calls[1].ret.value = Bool(TRUE)

IsRender(call) == call.op \in {"toJs", "toXml", "toXmlString"}

\* C9: toJs() and toXml(name) leave the intermediate object and the template
\* as they are; two toJs() calls, or two toXml(name) calls, on the same
\* object return equal results that share no object, array or node with
\* each other or with the intermediate object.
IdempotentRendering ==
    /\ \A i \in CallIndex :
           IsRender(calls[i]) =>
               calls[i].arg = data /\ calls[i].arg.template = template
    /\ \A i \in CallIndex :
           calls[i].op \in {"toJs", "toXml"} =>
               /\ ~IsThrow(calls[i].ret)
               /\ Ids(calls[i].ret) \cap Ids(calls[i].arg) = {}
    /\ \A i, j \in CallIndex :
           /\ i < j
           /\ calls[i].op \in {"toJs", "toXml"}
           /\ calls[i].op = calls[j].op /\ calls[i].name = calls[j].name
           /\ calls[i].arg = calls[j].arg
           => /\ StripIds(calls[i].ret) = StripIds(calls[j].ret)
              /\ Ids(calls[i].ret) \cap Ids(calls[j].ret) = {}

\* toJs(), toXml("x"), toJs() on the object made from the README's value.
IdempotentRenderingWitness ==
    /\ template = ReadmeTemplate
    /\ Len(calls) = 4
    /\ calls[1].op = "fromJs" /\ calls[1].arg = ReadmeValue
    /\ calls[2].op = "toJs" /\ calls[3].op = "toXml" /\ calls[4].op = "toJs"
    /\ Ids(calls[2].ret) # {}
    /\ Ids(calls[4].ret) # {}

RECURSIVE ConstructedAs(_, _)
\* The native value is what toJs builds from the node: at every object node
\* an instance of the template's constructor with exactly the node's
\* properties, at every array node an array of the items, at a value node
\* the value.
ConstructedAs(value, D) ==
    CASE D.t = "DObject" ->
            /\ value.t = "obj"
            /\ value.ctor = D.template.objectType
            /\ Len(value.props) = Len(D.properties.props)
            /\ KeySet(value.props) = KeySet(D.properties.props)
            /\ \A name \in KeySet(value.props) :
                   ConstructedAs(Lookup(value.props, name),
                                 Lookup(D.properties.props, name))
      [] D.t = "DArray" ->
            /\ value.t = "arr"
            /\ Len(value.items) = Len(D.items.items)
            /\ \A i \in 1..Len(value.items) :
                   ConstructedAs(value.items[i], D.items.items[i])
      [] D.t = "DValue" -> value = D.value

\* C10: toJs() on an object node gives a fresh instance of the constructor
\* the template was declared with (Object when none was given) carrying
\* exactly the node's properties, at every nesting level.
NativeConstructor ==
    \A i \in CallIndex :
        calls[i].op = "toJs" =>
            /\ ConstructedAs(calls[i].ret, calls[i].arg)
            /\ calls[i].ret.t = "obj" => calls[i].ret.id \notin Ids(calls[i].arg)
            /\ template = ConstructorTemplate =>
                   /\ calls[i].ret.ctor = P
                   /\ HasOwn(calls[i].ret.props, <<"b">>) =>
                          Lookup(calls[i].ret.props, <<"b">>).ctor = Q
            /\ template \in {PairTemplate, ReadmeTemplate, CarTemplate} =>
                   calls[i].ret.ctor = ObjectCtor

\* <p><a>3</a><b><c>fifteen</c></b></p> gives P {a: 3, b: Q {c: "fifteen"}}.
NativeConstructorWitness ==
    /\ template = ConstructorTemplate
    /\ Len(calls) = 2
    /\ calls[1].op = "fromXmlString" /\ calls[1].arg = Str(ConstructorText)
    /\ calls[2].op = "toJs"
    /\ StripIds(calls[2].ret)
       = StripIds(Obj(P, <<Entry(<<"a">>, Whole(3)),
                           Entry(<<"b">>,
                                 Obj(Q, <<Entry(<<"c">>,
                                           Str(<<"f", "i", "f", "t", "e", "e", "n">>))>>))>>))

=============================================================================
